---- MODULE Spec2Model ----
(***************************************************************************)
(* Model of calculate_amortization (src/app.py, lines 33-78), the          *)
(* fixed-payment loan amortization schedule of the loan calculator.        *)
(*                                                                         *)
(* Numbers.  Money is counted in whole cents (the call site passes whole   *)
(* dollar amounts, src/app.py lines 13 and 16), so an amount of 12.34 is   *)
(* the integer 1234.  The monthly rate is the rational                     *)
(* monthly_rate / RateDen.  round(x, 2) is rounding to the nearest cent,   *)
(* ties to the even cent (Python's round).                                 *)
(*                                                                         *)
(* Floats.  The program's amounts are binary floats.  Every amount of the  *)
(* model is the float's value to the nearest cent.  Of the float error     *)
(* only one thing reaches the control flow: the sign of the error that     *)
(* the running balance remaining_principal has accumulated (line 60),      *)
(* which decides the comparisons of lines 51 and 75 when the balance is,   *)
(* in cents, equal to the principal payment or to zero.  The variable      *)
(* drift holds that sign.  A subtraction whose operands are exactly        *)
(* representable leaves it 0; the difference of two equal amounts keeps    *)
(* it; any other subtraction may round either way, which the model leaves  *)
(* open.                                                                   *)
(***************************************************************************)
EXTENDS Integers, Sequences, FiniteSets

\* ---------------------------------------------------------------- bounds

\* Largest loan term (years) explored; terms range over 0..MaxYears.
MaxYears == 2

\* ------------------------------------------------------------- constants

\* range(1, 13): twelve months in every year of the schedule.
MonthsPerYear == 12

\* Denominator of the monthly rate: monthly_rate = 2 is 2/125 = 1.6 %.
\* It is odd, so that a balance in whole cents times the rate never falls
\* exactly on half a cent, where the binary representation of the float
\* product, not its decimal value, decides the direction of round().
RateDen == 125

\* ------------------------------------------------------------ the inputs

\* principal, in cents; <= 0 is outside the documented precondition.
Principals == {-1000, 0, 1270, 2400, 147690, 1000000}

\* monthly_rate, in 1/RateDen; < 0 is outside the documented precondition.
Rates == {-1, 0, 1, 2, 3}

\* monthly_payment, in cents; <= 0 is outside the documented precondition.
Payments == {-100, 0, 10, 100, 200, 1000, 24615, 100000}

\* max_years; < 1 is outside the documented precondition.
Years == 0..MaxYears

VARIABLES
    principal,              \* argument
    monthly_rate,           \* argument (numerator over RateDen)
    monthly_payment,        \* argument
    max_years,              \* argument
    pc,                     \* "loop", "return76" (early return) or "return78"
    year,                   \* outer loop variable
    month,                  \* inner loop variable
    month_num,
    remaining_principal,    \* to the nearest cent
    drift,                  \* sign of the float error of remaining_principal
    total_interest_paid,
    total_principal_paid,
    schedule

vars == <<principal, monthly_rate, monthly_payment, max_years, pc, year, month,
          month_num, remaining_principal, drift, total_interest_paid,
          total_principal_paid, schedule>>

args == <<principal, monthly_rate, monthly_payment, max_years>>

\* ------------------------------------------------------- pure operations

\* round(n / d) to the nearest integer, ties to the even one (d > 0).
Round2(n, d) ==
    LET q == n \div d
        r == n - q * d
    IN  IF 2 * r < d THEN q
        ELSE IF 2 * r > d THEN q + 1
        ELSE IF q % 2 = 0 THEN q ELSE q + 1

\* Fault: interest charged on balance * (1 + rate).
InterestPayment_compound(rem, rate) == Round2(rem * (RateDen + rate), RateDen)

\* line 45: interest_payment = round(remaining_principal * monthly_rate, 2)
InterestPayment(rem, rate) == Round2(rem * rate, RateDen)

\* line 48: principal_payment = round(monthly_payment - interest_payment, 2)
PrincipalPayment(mp, ip) == Round2(mp - ip, 1)

\* Fault: the comparison of line 51 inverted.
ClampApplies_inverted(pp, rem, d) == pp < rem \/ (pp = rem /\ d > 0)

\* line 51: if principal_payment > remaining_principal, a comparison of
\* floats: amounts equal in cents compare by the balance's float error
ClampApplies(pp, rem, d) == pp > rem \/ (pp = rem /\ d < 0)

\* Fault: the clamp of line 52 left out.
ClampedPrincipal_noclamp(pp, rem, d) == pp

\* lines 51-52: the principal actually paid
ClampedPrincipal(pp, rem, d) == IF ClampApplies(pp, rem, d) THEN rem ELSE pp

\* Fault: the final payment not adjusted (line 53 left out).
ActualPayment_fixed(mp, ip, pp, rem, d) == mp

\* lines 51-55: actual_payment
ActualPayment(mp, ip, pp, rem, d) ==
    IF ClampApplies(pp, rem, d) THEN ip + ClampedPrincipal(pp, rem, d) ELSE mp

\* Fault: = written for +=.
Accumulate_assign(total, amount) == amount

\* lines 58-59: total += amount
Accumulate(total, amount) == total + amount

\* Fault: += written for -=.
Remaining_added(rem, pp) == rem + pp

\* line 60: remaining_principal -= principal_payment
Remaining(rem, pp) == rem - pp

\* An amount in cents that a binary float holds exactly: a multiple of a
\* quarter (whole dollar amounts among them).
ExactFloat(c) == c % 25 = 0

\* line 60: the float error the balance may carry after the subtraction.
\* Clamped, the balance is subtracted from itself: exactly 0.  Nothing
\* subtracted, or an amount equal in cents subtracted (the difference of
\* two floats that close is exact): the error stays.  Exact operands: no
\* error.  Otherwise the subtraction rounds, in a direction the decimal
\* values do not determine.
DriftAfter(pp, rem, d) ==
    IF ClampApplies(pp, rem, d) THEN {0}
    ELSE IF pp = rem \/ pp = 0 THEN {d}
    ELSE IF d = 0 /\ ExactFloat(rem) /\ ExactFloat(pp) THEN {0}
    ELSE {-1, 0, 1}

\* line 75: if remaining_principal <= 0, a comparison of a float with 0
PaidOff(rem, d) == rem < 0 \/ (rem = 0 /\ d <= 0)

\* Fault: range(1, max_years).
LoopRuns_short(y, maxy) == y < maxy

\* line 40: for year in range(1, max_years + 1)
LoopRuns(y, maxy) == y <= maxy

\* Fault: range(1, 12).
LastMonth_short(m) == m = MonthsPerYear - 1

\* line 41: for month in range(1, 13) ends after month 12
LastMonth(m) == m = MonthsPerYear

\* ------------------------------------------------------------------ Init

\* lines 34-38, and the loop variables before the first iteration
Init ==
    /\ principal \in Principals
    /\ monthly_rate \in Rates
    /\ monthly_payment \in Payments
    /\ max_years \in Years
    /\ pc = "loop"
    /\ year = 1
    /\ month = 1
    /\ month_num = 0
    /\ remaining_principal = principal
    /\ drift = 0
    /\ total_interest_paid = 0
    /\ total_principal_paid = 0
    /\ schedule = << >>

\* --------------------------------------------------------------- actions

\* lines 41-76: one iteration of the inner loop body, with the early return
Period ==
    /\ pc = "loop"
    /\ LoopRuns(year, max_years)
    /\ LET interest_payment  == InterestPayment(remaining_principal, monthly_rate)
           pp                == PrincipalPayment(monthly_payment, interest_payment)
           principal_payment == ClampedPrincipal(pp, remaining_principal, drift)
           actual_payment    == ActualPayment(monthly_payment, interest_payment,
                                              pp, remaining_principal, drift)
           ti  == Accumulate(total_interest_paid, interest_payment)
           tp  == Accumulate(total_principal_paid, principal_payment)
           rem == Remaining(remaining_principal, principal_payment)
       IN  /\ drift' \in DriftAfter(pp, remaining_principal, drift)
           /\ month_num' = month_num + 1
           /\ total_interest_paid' = ti
           /\ total_principal_paid' = tp
           /\ remaining_principal' = rem
           /\ schedule' = Append(schedule,
                  [Month             |-> month_num + 1,
                   Year              |-> year,
                   Payment           |-> actual_payment,
                   Interest          |-> interest_payment,
                   Principal         |-> principal_payment,
                   Remaining_Balance |-> Round2(rem, 1),
                   Total_Interest    |-> Round2(ti, 1),
                   Total_Principal   |-> Round2(tp, 1)])
           /\ IF PaidOff(rem, drift')
              THEN /\ pc' = "return76"
                   /\ UNCHANGED <<year, month>>
              ELSE /\ pc' = "loop"
                   /\ IF LastMonth(month)
                      THEN year' = year + 1 /\ month' = 1
                      ELSE year' = year /\ month' = month + 1
    /\ UNCHANGED args

\* line 78: both loops are exhausted
ReturnAfterLoop ==
    /\ pc = "loop"
    /\ ~LoopRuns(year, max_years)
    /\ pc' = "return78"
    /\ UNCHANGED <<args, year, month, month_num, remaining_principal, drift,
                   total_interest_paid, total_principal_paid, schedule>>

Next == Period \/ ReturnAfterLoop

Spec == Init /\ [][Next]_vars

\* ------------------------------------------------- vocabulary of the claims

\* The documented precondition of the engine.
Valid ==
    /\ principal > 0
    /\ monthly_rate >= 0
    /\ monthly_payment > 0
    /\ max_years >= 1

Returned == pc \in {"return76", "return78"}

N == Len(schedule)

MaxPeriods == MonthsPerYear * max_years

\* The balance after record i; before the first record it is the principal.
Balance(i) == IF i = 0 THEN principal ELSE schedule[i].Remaining_Balance

RECURSIVE SumPrincipal(_)
SumPrincipal(i) == IF i = 0 THEN 0 ELSE SumPrincipal(i - 1) + schedule[i].Principal

\* Record i is one in which the payoff clamp of line 51 triggered.
WasClamped(i) ==
    Round2(monthly_payment - schedule[i].Interest, 1) > Balance(i - 1)

\* The payment is below the exact first-period interest principal * rate.
BelowExactInterest == monthly_payment * RateDen < principal * monthly_rate

\* The payment is below the first period's interest as the engine computes it.
BelowRoundedInterest ==
    monthly_payment < Round2(principal * monthly_rate, RateDen)

\* -------------------------------------------------------------------- C1

\* C1: whenever principal <= 0, monthlyPayment <= 0, monthlyRate < 0 or
\* maxYears < 1, the engine signals an error and produces no schedule: it
\* emits no record and never reaches a return statement.
C1_InvalidParameterSignalled ==
    ~Valid => (schedule = << >> /\ ~Returned)

\* -------------------------------------------------------------------- C2

\* C2 as stated: for all valid inputs the remaining balance never increases
\* from one record to the next, and the first record's is <= principal.
C2_NonIncreasingForAllValid ==
    Valid => \A i \in 1..N : Balance(i) <= Balance(i - 1)

\* C2 amended: for valid inputs whose monthly payment is at least the first
\* period's rounded interest, the remaining balance never increases from one
\* record to the next, and the first record's is <= principal.
C2_NonIncreasingWhenInterestCovered ==
    (Valid /\ ~BelowRoundedInterest) =>
        \A i \in 1..N : Balance(i) <= Balance(i - 1)

\* A returned schedule of a loan at positive interest whose balance fell in
\* every one of at least three periods.
C2_Witness ==
    /\ Valid /\ ~BelowRoundedInterest /\ Returned
    /\ monthly_rate > 0
    /\ N >= 3
    /\ \A i \in 1..N : Balance(i) < Balance(i - 1)

\* -------------------------------------------------------------------- C3

\* C3: for valid inputs the remaining balance is never negative, in the
\* running value (its float error included) and in every record; the last
\* record's balance is exactly 0 when the engine returns early, so the last
\* balance of a returned schedule is 0 or > 0.
C3_BalanceNeverNegative ==
    Valid =>
        /\ remaining_principal >= 0
        /\ remaining_principal = 0 => drift >= 0
        /\ \A i \in 1..N : schedule[i].Remaining_Balance >= 0
        /\ pc = "return76" => schedule[N].Remaining_Balance = 0

\* A paid-off schedule whose last record was clamped to the remaining balance.
C3_Witness ==
    /\ Valid /\ pc = "return76"
    /\ N >= 2
    /\ WasClamped(N)
    /\ schedule[N].Principal < Round2(monthly_payment - schedule[N].Interest, 1)
    /\ schedule[N].Remaining_Balance = 0

\* -------------------------------------------------------------------- C4

\* C4: for valid inputs, after every period the principal amounts of the
\* records emitted so far sum to principal minus the current remaining
\* balance, and so does the running total; at return the total principal
\* equals principal minus the last record's remaining balance.
C4_PrincipalSum ==
    Valid =>
        /\ SumPrincipal(N) = principal - remaining_principal
        /\ total_principal_paid = SumPrincipal(N)
        /\ (Returned /\ N > 0) =>
               total_principal_paid = principal - schedule[N].Remaining_Balance

\* A returned schedule at positive interest, not paid off, of 24 records.
C4_Witness ==
    /\ Valid /\ pc = "return78"
    /\ monthly_rate > 0
    /\ N >= 2 * MonthsPerYear
    /\ total_principal_paid > 0
    /\ schedule[N].Remaining_Balance > 0

\* -------------------------------------------------------------------- C5

\* C5: for valid inputs the Month values of the records are 1..N in order;
\* the returned schedule is non-empty, the returned month count is N,
\* N <= maxYears * 12, and N = maxYears * 12 when the loops run out.
C5_ContiguousPeriods ==
    Valid =>
        /\ \A i \in 1..N : schedule[i].Month = i
        /\ month_num = N
        /\ N <= MaxPeriods
        /\ Returned => N >= 1
        /\ pc = "return78" => N = MaxPeriods

\* A schedule that ran the full two years without paying off.
C5_Witness ==
    /\ Valid /\ pc = "return78"
    /\ max_years >= 2
    /\ N = MaxPeriods
    /\ schedule[N].Month = MaxPeriods

\* -------------------------------------------------------------------- C6

\* C6: no record follows a record whose remaining balance is <= 0: every
\* record but the last has a balance > 0, and so has the last one while the
\* loop still runs.  When, for valid inputs, the period that zeroes the
\* balance is period maxYears * 12, the engine returns early on that period
\* with balance 0 and month count maxYears * 12.
C6_EarlyTermination ==
    /\ \A i \in 1..(N - 1) : schedule[i].Remaining_Balance > 0
    /\ (pc = "loop" /\ N > 0) => schedule[N].Remaining_Balance > 0
    /\ (Valid /\ N = MaxPeriods /\ schedule[N].Remaining_Balance <= 0) =>
           /\ pc = "return76"
           /\ schedule[N].Remaining_Balance = 0
           /\ month_num = MaxPeriods

\* -------------------------------------------------------------------- C7

\* C7: for valid inputs, a record in which the clamp did not trigger has
\* Payment = monthlyPayment and Interest + Principal = monthlyPayment; a
\* record in which it triggered is the last record of a paid-off schedule,
\* its Principal is the balance before it, and its Payment is
\* Interest + Principal, which is <= monthlyPayment.
C7_PayoffClamp ==
    Valid =>
        \A i \in 1..N :
            IF WasClamped(i)
            THEN /\ i = N
                 /\ pc = "return76"
                 /\ schedule[i].Principal = Balance(i - 1)
                 /\ schedule[i].Payment =
                        schedule[i].Interest + schedule[i].Principal
                 /\ schedule[i].Payment <= monthly_payment
            ELSE /\ schedule[i].Payment = monthly_payment
                 /\ schedule[i].Interest + schedule[i].Principal
                        = monthly_payment

\* A paid-off schedule at positive interest whose last payment was clamped
\* below the fixed monthly payment, after at least one full payment.
C7_Witness ==
    /\ Valid /\ pc = "return76"
    /\ monthly_rate > 0
    /\ N >= 2
    /\ WasClamped(N)
    /\ schedule[N].Interest > 0
    /\ schedule[N].Payment < monthly_payment
    /\ schedule[N - 1].Payment = monthly_payment

\* -------------------------------------------------------------------- C8

\* C8: with monthlyRate = 0 and otherwise valid inputs, every record has
\* Interest = 0, every record that is not the last of the returned schedule
\* has Principal = monthlyPayment, and the total interest is 0; for
\* principal 10000.00, monthlyPayment 1000.00 and maxYears 1 the returned
\* schedule has exactly 10 records, a last balance of 0 and a total
\* principal of 10000.00.
C8_ZeroRate ==
    (Valid /\ monthly_rate = 0) =>
        /\ \A i \in 1..N :
               /\ schedule[i].Interest = 0
               /\ (i < N \/ pc = "loop") =>
                      schedule[i].Principal = monthly_payment
        /\ total_interest_paid = 0
        /\ (Returned /\ principal = 1000000 /\ monthly_payment = 100000
              /\ max_years = 1) =>
               /\ N = 10
               /\ schedule[N].Remaining_Balance = 0
               /\ total_principal_paid = 1000000

\* The scenario of the claim has returned.
C8_Witness ==
    /\ Valid /\ monthly_rate = 0 /\ Returned
    /\ principal = 1000000 /\ monthly_payment = 100000 /\ max_years = 1
    /\ N = 10

\* -------------------------------------------------------------------- C9

\* C9 as stated: for valid inputs with monthlyPayment < principal *
\* monthlyRate, the principal amount is negative in every record, the
\* balance grows from record to record, the engine never returns early, and
\* it returns maxYears * 12 records with a final balance > principal.
C9_GrowsBelowExactInterest ==
    (Valid /\ BelowExactInterest) =>
        /\ \A i \in 1..N :
               /\ schedule[i].Principal < 0
               /\ Balance(i) > Balance(i - 1)
        /\ pc # "return76"
        /\ pc = "return78" =>
               (N = MaxPeriods /\ schedule[N].Remaining_Balance > principal)

\* C9 amended: for valid inputs with monthlyPayment below the first
\* period's interest as rounded to the cent, round(principal * monthlyRate,
\* 2), the principal amount is negative in every record, the balance grows
\* from record to record, the engine never returns early, and it returns
\* maxYears * 12 records with a final balance > principal.
C9_GrowsBelowRoundedInterest ==
    (Valid /\ BelowRoundedInterest) =>
        /\ \A i \in 1..N :
               /\ schedule[i].Principal < 0
               /\ Balance(i) > Balance(i - 1)
        /\ pc # "return76"
        /\ pc = "return78" =>
               (N = MaxPeriods /\ schedule[N].Remaining_Balance > principal)

\* An under-paid loan ran its whole term and its balance grew.
C9_Witness ==
    /\ Valid /\ BelowRoundedInterest /\ pc = "return78"
    /\ N = MaxPeriods
    /\ schedule[1].Principal < 0
    /\ schedule[N].Remaining_Balance > principal

\* ------------------------------------------------------------------- C10

\* C10: in every record, Year = ceil(Month / 12).
C10_YearOfMonth ==
    \A i \in 1..N :
        schedule[i].Year =
            (schedule[i].Month + MonthsPerYear - 1) \div MonthsPerYear

\* A schedule that ended in a partial second year.
C10_Witness ==
    /\ pc = "return76"
    /\ N > MonthsPerYear
    /\ N < 2 * MonthsPerYear
    /\ schedule[N].Year = 2
    /\ schedule[MonthsPerYear].Year = 1

====
